---- MODULE Spec2Model ----
(***************************************************************************)
(* PackTabs: the group repository (utils/storage.ts), its retry           *)
(* controller and conflict resolver, and the Pinia store that orchestrates *)
(* them (useTabStore).  The durable store is the single WXT storage item   *)
(* 'sync:tabGroups'; every repository operation is a read (getValue), a    *)
(* synchronous computation and a write (setValue) of the whole map, run    *)
(* inside withRetry.  Tasks are the asynchronous invocations that may be   *)
(* in flight at once: one of the dashboard page and one of the background  *)
(* service worker.                                                         *)
(***************************************************************************)
EXTENDS Integers, Sequences, FiniteSets, TLC

VARIABLES
  store,            \* sync:tabGroups : group id -> wire record (partial map)
  task,             \* per task: position in the running operation
  tabGroups,        \* useTabStore.tabGroups (dashboard snapshot)
  selectedGroupId,  \* useTabStore.selectedGroupId
  known,            \* ids generated or stored so far (randomUUID freshness)
  idPool,           \* the group ids of this run
  tasks,            \* the surfaces of this run
  opsLeft,          \* top-level operations still allowed
  faultsLeft,       \* storage failures still allowed
  window,           \* the tabs of the current browser window, in host order
  autoCloseAfterSave, \* settingsStorage.autoCloseAfterSave
  tabOp             \* the last call of the tab manager and how it settled

hostVars == <<window, autoCloseAfterSave, tabOp>>

vars == <<store, task, tabGroups, selectedGroupId, known,
          idPool, tasks, opsLeft, faultsLeft,
          window, autoCloseAfterSave, tabOp>>

----------------------------------------------------------------------------
(* Bounds *)

MaxOps == 3
MaxFaults == 4
MaxTime == 2
MaxTabs == 2

----------------------------------------------------------------------------
(* RETRY_CONFIG *)

maxRetries == 3
initialDelay == 100
maxDelay == 2000
backoffMultiplier == 2

----------------------------------------------------------------------------
(* Values *)

Dashboard == "dashboard"
Background == "background"
\* a second invocation of the dashboard store, made by an event handler of a
\* component while an earlier action is still awaiting
TitleEdit == "titleEdit"

\* Date: milliseconds since the epoch, or the Invalid Date (getTime() is NaN)
InvalidDate == -1
Times == 1..MaxTime

\* ISO-8601 strings as written by toISOString, and one unparsable string
IsoString(ms) == [iso |-> TRUE, ms |-> ms]
Garbled == [iso |-> FALSE, ms |-> 0]

\* Date.prototype.toISOString (a RangeError on the Invalid Date is raised by
\* the callers' guard CanSerialize)
toISOString(d) == IsoString(d)

\* variant: the milliseconds are lost in parsing
ParseDate_seconds(s) == IF s.iso THEN (s.ms \div 1000) * 1000 ELSE InvalidDate

\* new Date(string).getTime()
ParseDate(s) == IF s.iso THEN s.ms ELSE InvalidDate

\* a >= b on numbers, false when either side is NaN
NumGE(a, b) == a # InvalidDate /\ b # InvalidDate /\ a >= b

\* names are character sequences; null is the absent name
NoName == <<"null">>
IsSpace(c) == c = " "

RECURSIVE TrimStart(_)
TrimStart(s) == IF s # <<>> /\ IsSpace(Head(s)) THEN TrimStart(Tail(s)) ELSE s

RECURSIVE TrimEnd(_)
TrimEnd(s) ==
  IF s # <<>> /\ IsSpace(s[Len(s)]) THEN TrimEnd(SubSeq(s, 1, Len(s) - 1)) ELSE s

\* String.prototype.trim
Trim(s) == TrimEnd(TrimStart(s))

NoFavicon == "undefined"
TabA == [id |-> "t1", url |-> "https://a.example", title |-> "A", faviconUrl |-> NoFavicon]
TabB == [id |-> "t2", url |-> "https://b.example", title |-> "B", faviconUrl |-> "https://b.example/i.png"]

EmptyMap == [k \in {} |-> 0]

\* a tab of the host browser: url and title may be missing
NoUrl == "undefined"
NoTitle == "undefined"
HostTab(url, title, favIconUrl) == [url |-> url, title |-> title, favIconUrl |-> favIconUrl]

\* new URL(url).protocol, or "malformed" when the constructor throws
Protocol(url) ==
  CASE url \in {"https://a.example", "https://b.example"} -> "https:"
    [] url = "chrome://settings" -> "chrome:"
    [] url = "chrome-extension://abc/page.html" -> "chrome-extension:"
    [] url = "about:blank" -> "about:"
    [] url = "data:text/html,hi" -> "data:"
    [] url = "javascript:void(0)" -> "javascript:"
    [] OTHER -> "malformed"

----------------------------------------------------------------------------
(* Serializer *)

serializeTabGroup(group) ==
  [id |-> group.id, name |-> group.name,
   createdAt |-> toISOString(group.createdAt),
   tabs |-> group.tabs, isHistory |-> group.isHistory]

deserializeTabGroup(stored) ==
  [id |-> stored.id, name |-> stored.name,
   createdAt |-> ParseDate(stored.createdAt),
   tabs |-> stored.tabs, isHistory |-> stored.isHistory]

\* toISOString throws RangeError on an Invalid Date
CanSerialize(group) == group.createdAt # InvalidDate

----------------------------------------------------------------------------
(* Errors *)

\* An Error is its class, the kind of its message and the ids interpolated
\* into the message text.
Err(cls, kind, ids) == [cls |-> cls, kind |-> kind, ids |-> ids]
NoError == Err("none", "none", {})

GroupNotFound(id) == Err("Error", "GroupNotFound", {id})
TabNotFound(tabId, groupId) == Err("Error", "TabNotFound", {tabId, groupId})
RangeError == Err("RangeError", "InvalidTimeValue", {})
NetworkError == Err("Error", "Network", {})
TimeoutError == Err("Error", "Timeout", {})
QuotaBytesError == Err("Error", "QUOTA_BYTES", {})
StorageFaults == {NetworkError, TimeoutError, QuotaBytesError}

\* ids whose text contains 'quota'
HasQuotaText(id) == id \in {"quota-g"}

\* message.includes('QUOTA_BYTES') || message.includes('quota')
IsQuotaMessage(e) ==
  \/ e.kind = "QUOTA_BYTES"
  \/ \E i \in e.ids : HasQuotaText(i)

\* new StorageQuotaExceededError(lastError.message)
StorageQuotaExceededError(e) == [e EXCEPT !.cls = "StorageQuotaExceededError"]

----------------------------------------------------------------------------
(* Conflict resolver *)

\* variant: the stored record also wins a tie
resolveSyncConflict_strict(localGroup, remoteGroup) ==
  IF localGroup.createdAt > ParseDate(remoteGroup.createdAt)
  THEN serializeTabGroup(localGroup)
  ELSE remoteGroup

resolveSyncConflict(localGroup, remoteGroup) ==
  IF NumGE(localGroup.createdAt, ParseDate(remoteGroup.createdAt))
  THEN serializeTabGroup(localGroup)
  ELSE remoteGroup

----------------------------------------------------------------------------
(* Repository operations: the body run by withRetry after getValue has     *)
(* returned allGroups.  The result is either the map handed to setValue,   *)
(* the value returned without a write, or the error thrown.                *)

Put(allGroups, id, rec) ==
  [k \in DOMAIN allGroups \cup {id} |-> IF k = id THEN rec ELSE allGroups[k]]

Remove(allGroups, id) ==
  [k \in DOMAIN allGroups \ {id} |-> allGroups[k]]

Write(m) == [kind |-> "write", map |-> m, err |-> NoError]
Return(m) == [kind |-> "return", map |-> m, err |-> NoError]
Throw(e) == [kind |-> "throw", map |-> EmptyMap, err |-> e]

\* variant: the save overwrites whatever is stored under the id
saveTabGroup_overwrite(allGroups, group) ==
  IF ~CanSerialize(group) THEN Throw(RangeError)
  ELSE Write(Put(allGroups, group.id, serializeTabGroup(group)))

saveTabGroup(allGroups, group) ==
  IF ~CanSerialize(group) THEN Throw(RangeError)
  ELSE IF group.id \in DOMAIN allGroups
       THEN Write(Put(allGroups, group.id,
                      resolveSyncConflict(group, allGroups[group.id])))
       ELSE Write(Put(allGroups, group.id, serializeTabGroup(group)))

getTabGroups(allGroups) == Return(allGroups)

\* variant: the spread of updates is not followed by id: existingGroup.id
ApplyUpdates_allowsId(existingGroup, updates) ==
  [f \in DOMAIN existingGroup |->
     IF f \in DOMAIN updates THEN updates[f] ELSE existingGroup[f]]

\* { ...existingGroup, ...updates, id: existingGroup.id }
ApplyUpdates(existingGroup, updates) ==
  [f \in DOMAIN existingGroup |->
     IF f # "id" /\ f \in DOMAIN updates THEN updates[f] ELSE existingGroup[f]]

updateTabGroup(allGroups, id, updates) ==
  IF id \notin DOMAIN allGroups THEN Throw(GroupNotFound(id))
  ELSE LET updatedGroup == ApplyUpdates(deserializeTabGroup(allGroups[id]), updates)
       IN IF ~CanSerialize(updatedGroup) THEN Throw(RangeError)
          ELSE Write(Put(allGroups, id, serializeTabGroup(updatedGroup)))

\* variant: the delete of an absent id writes the map back
deleteTabGroup_ignoresAbsent(allGroups, id) ==
  Write(Remove(allGroups, id))

\* variant: the delete writes back an empty map
deleteTabGroup_clearsAll(allGroups, id) ==
  IF id \notin DOMAIN allGroups THEN Throw(GroupNotFound(id))
  ELSE Write(EmptyMap)

deleteTabGroup(allGroups, id) ==
  IF id \notin DOMAIN allGroups THEN Throw(GroupNotFound(id))
  ELSE Write(Remove(allGroups, id))

\* tabs.findIndex(tab => tab.id === tabId), 0 for -1
FindIndex(tabs, tabId) ==
  IF \E i \in 1..Len(tabs) : tabs[i].id = tabId
  THEN CHOOSE i \in 1..Len(tabs) :
         /\ tabs[i].id = tabId
         /\ \A j \in 1..(i - 1) : tabs[j].id # tabId
  ELSE 0

\* variant: splice(tabIndex - 1, 1) in 0-based terms, the previous entry goes
Splice_offByOne(tabs, tabIndex) ==
  IF tabIndex = 1 THEN SubSeq(tabs, 1, Len(tabs) - 1)
  ELSE SubSeq(tabs, 1, tabIndex - 2) \o SubSeq(tabs, tabIndex, Len(tabs))

\* tabs.splice(tabIndex, 1)
Splice(tabs, tabIndex) ==
  SubSeq(tabs, 1, tabIndex - 1) \o SubSeq(tabs, tabIndex + 1, Len(tabs))

deleteTabFromGroup(allGroups, groupId, tabId) ==
  IF groupId \notin DOMAIN allGroups THEN Throw(GroupNotFound(groupId))
  ELSE LET group == allGroups[groupId]
           tabIndex == FindIndex(group.tabs, tabId)
       IN IF tabIndex = 0 THEN Throw(TabNotFound(tabId, groupId))
          ELSE Write(Put(allGroups, groupId,
                         [group EXCEPT !.tabs = Splice(group.tabs, tabIndex)]))

----------------------------------------------------------------------------
(* Retry controller *)

Min(a, b) == IF a <= b THEN a ELSE b

RECURSIVE Pow(_, _)
Pow(b, n) == IF n = 0 THEN 1 ELSE b * Pow(b, n - 1)

\* variant: the delay grows by initialDelay per attempt
Delay_linear(attempt) == Min(initialDelay * (attempt + 1), maxDelay)

\* Math.min(initialDelay * Math.pow(backoffMultiplier, attempt), maxDelay)
Delay(attempt) == Min(initialDelay * Pow(backoffMultiplier, attempt), maxDelay)

----------------------------------------------------------------------------
(* Tab manager (utils/tabManager.ts).  A call of the host browser either    *)
(* resolves ("ok") or rejects, with a message that contains 'permission'    *)
(* or with another one.                                                      *)

HostOutcomes == {"ok", "permission", "other"}
HostRejects(o) ==
  IF o = "permission" THEN Err("Error", "permission", {}) ELSE Err("Error", "host", {})

TabPermissionDeniedError(url) == Err("TabPermissionDeniedError", "PermissionDenied", {url})
InvalidUrlError(url) == Err("InvalidUrlError", "InvalidUrl", {url})
FailedToOpenTabs(e) == Err("Error", "FailedToOpenTabs", {e.kind})

\* a protocol ends with its only colon, so startsWith on protocols is equality
RestrictedProtocols == {"chrome:", "chrome-extension:", "about:", "data:", "javascript:"}

\* variant: the list of restricted protocols is the one of the capture filter
validateUrl_captureList(url) ==
  Protocol(url) # "malformed" /\ Protocol(url) \notin {"chrome:", "chrome-extension:", "about:"}

validateUrl(url) ==
  Protocol(url) # "malformed" /\ Protocol(url) \notin RestrictedProtocols

\* the filter callback of captureCurrentWindow
CaptureFilter(tab) ==
  /\ tab.url # NoUrl
  /\ Protocol(tab.url) # "malformed"
  /\ Protocol(tab.url) \notin {"chrome:", "chrome-extension:", "about:"}

\* crypto.randomUUID() for the i-th captured tab: fresh and distinct
UuidPool == <<"u1", "u2", "u3", "u4", "u5", "u6">>

\* the map callback of captureCurrentWindow
ToTabItem(tab, i) ==
  [id |-> UuidPool[i],
   url |-> IF tab.url = NoUrl THEN "" ELSE tab.url,
   title |-> IF tab.title = NoTitle THEN "Untitled" ELSE tab.title,
   faviconUrl |-> tab.favIconUrl]

CurrentWindowId == 1
HostCall(api, url, active) ==
  [api |-> api, windowId |-> CurrentWindowId, url |-> url, active |-> active]
GetCurrentCall == HostCall("windows.getCurrent", "", FALSE)
QueryCall == HostCall("tabs.query", "", FALSE)
CreateCall(url, active) == HostCall("tabs.create", url, active)
RemoveCall == HostCall("tabs.remove", "", FALSE)

\* how a call of the tab manager settles: items is the value returned, calls
\* the host calls it issued, opened the urls of the tabs the host created
TabResult(status, e, items, calls, opened) ==
  [status |-> status, err |-> e, items |-> items, calls |-> calls, opened |-> opened]

\* host: the outcome of windows.getCurrent followed by tabs.query
captureCurrentWindow(tabs, host) ==
  IF host = "ok"
  THEN LET kept == SelectSeq(tabs, CaptureFilter)
       IN TabResult("resolved", NoError,
                    [i \in 1..Len(kept) |-> ToTabItem(kept[i], i)],
                    <<GetCurrentCall, QueryCall>>, <<>>)
  ELSE TabResult("rejected",
                 IF host = "permission" THEN TabPermissionDeniedError("current window")
                 ELSE HostRejects(host),
                 <<>>, <<GetCurrentCall>>, <<>>)

\* variant: any rejected tabs.create ends the loop
RECURSIVE OpenLoop_stopsOnError(_, _, _, _)
OpenLoop_stopsOnError(tabs, outcomes, calls, opened) ==
  IF tabs = <<>> THEN TabResult("resolved", NoError, <<>>, calls, opened)
  ELSE LET tab == Head(tabs) IN
    IF ~validateUrl(tab.url)
    THEN OpenLoop_stopsOnError(Tail(tabs), Tail(outcomes), calls, opened)
    ELSE LET issued == Append(calls, CreateCall(tab.url, FALSE)) IN
      IF Head(outcomes) = "ok"
      THEN OpenLoop_stopsOnError(Tail(tabs), Tail(outcomes), issued, Append(opened, tab.url))
      ELSE IF Head(outcomes) = "permission"
      THEN TabResult("rejected", TabPermissionDeniedError(tab.url), <<>>, issued, opened)
      ELSE TabResult("rejected", FailedToOpenTabs(HostRejects(Head(outcomes))), <<>>,
                     issued, opened)

\* variant: an invalid url ends the loop with InvalidUrlError
RECURSIVE OpenLoop_strict(_, _, _, _)
OpenLoop_strict(tabs, outcomes, calls, opened) ==
  IF tabs = <<>> THEN TabResult("resolved", NoError, <<>>, calls, opened)
  ELSE LET tab == Head(tabs) IN
    IF ~validateUrl(tab.url)
    THEN TabResult("rejected", InvalidUrlError(tab.url), <<>>, calls, opened)
    ELSE LET issued == Append(calls, CreateCall(tab.url, FALSE)) IN
      IF Head(outcomes) = "ok"
      THEN OpenLoop_strict(Tail(tabs), Tail(outcomes), issued, Append(opened, tab.url))
      ELSE IF Head(outcomes) = "permission"
      THEN TabResult("rejected", TabPermissionDeniedError(tab.url), <<>>, issued, opened)
      ELSE OpenLoop_strict(Tail(tabs), Tail(outcomes), issued, opened)

\* the for loop of openTabs; outcomes[i] is what tabs.create does for tabs[i]
RECURSIVE OpenLoop(_, _, _, _)
OpenLoop(tabs, outcomes, calls, opened) ==
  IF tabs = <<>> THEN TabResult("resolved", NoError, <<>>, calls, opened)
  ELSE LET tab == Head(tabs) IN
    IF ~validateUrl(tab.url) THEN OpenLoop(Tail(tabs), Tail(outcomes), calls, opened)
    ELSE LET issued == Append(calls, CreateCall(tab.url, FALSE)) IN
      IF Head(outcomes) = "ok"
      THEN OpenLoop(Tail(tabs), Tail(outcomes), issued, Append(opened, tab.url))
      ELSE IF Head(outcomes) = "permission"
      THEN TabResult("rejected", TabPermissionDeniedError(tab.url), <<>>, issued, opened)
      ELSE OpenLoop(Tail(tabs), Tail(outcomes), issued, opened)

\* host: the outcome of windows.getCurrent
openTabs(tabs, host, outcomes) ==
  IF host # "ok"
  THEN TabResult("rejected", FailedToOpenTabs(HostRejects(host)), <<>>,
                 <<GetCurrentCall>>, <<>>)
  ELSE OpenLoop(tabs, outcomes, <<GetCurrentCall>>, <<>>)

\* host: the outcome of windows.getCurrent, outcome: the one of tabs.create
openSingleTab(tab, host, outcome) ==
  IF ~validateUrl(tab.url)
  THEN TabResult("rejected", InvalidUrlError(tab.url), <<>>, <<>>, <<>>)
  ELSE IF host # "ok"
  THEN TabResult("rejected",
                 IF host = "permission" THEN TabPermissionDeniedError(tab.url)
                 ELSE HostRejects(host),
                 <<>>, <<GetCurrentCall>>, <<>>)
  ELSE IF outcome = "ok"
  THEN TabResult("resolved", NoError, <<>>,
                 <<GetCurrentCall, CreateCall(tab.url, TRUE)>>, <<tab.url>>)
  ELSE TabResult("rejected",
                 IF outcome = "permission" THEN TabPermissionDeniedError(tab.url)
                 ELSE HostRejects(outcome),
                 <<>>, <<GetCurrentCall, CreateCall(tab.url, TRUE)>>, <<>>)

TabNotFoundError == Err("TabNotFoundError", "TabNotFound", {"unknown"})
RemoveOutcomes == {"ok", "notab", "other"}

\* host: the outcome of windows.getCurrent followed by tabs.query, outcome:
\* the one of tabs.remove, which is called when the window has tabs
closeCurrentTabs(tabs, host, outcome) ==
  IF host # "ok"
  THEN TabResult("rejected", HostRejects(host), <<>>, <<GetCurrentCall>>, <<>>)
  ELSE IF Len(tabs) = 0
  THEN TabResult("resolved", NoError, <<>>, <<GetCurrentCall, QueryCall>>, <<>>)
  ELSE IF outcome = "ok"
  THEN TabResult("resolved", NoError, <<>>, <<GetCurrentCall, QueryCall, RemoveCall>>, <<>>)
  ELSE TabResult("rejected",
                 IF outcome = "notab" THEN TabNotFoundError ELSE HostRejects(outcome),
                 <<>>, <<GetCurrentCall, QueryCall, RemoveCall>>, <<>>)

\* the window after the host has created tabs for urls
WithOpened(tabs, urls) ==
  tabs \o [i \in 1..Len(urls) |-> HostTab(urls[i], NoTitle, NoFavicon)]

\* a settled call of the tab manager: its arguments, what the host did, the
\* host calls it issued and its result
TabOp(op, items, host, outcomes, res) ==
  [op |-> op, items |-> items, host |-> host, outcomes |-> outcomes,
   calls |-> res.calls, status |-> res.status, err |-> res.err]

NoTabOp == [op |-> "none", items |-> <<>>, host |-> "ok", outcomes |-> <<>>,
            calls |-> <<>>, status |-> "none", err |-> NoError]

----------------------------------------------------------------------------
(* Task records *)

NoGroup == [id |-> "", name |-> NoName, createdAt |-> InvalidDate,
            tabs |-> <<>>, isHistory |-> FALSE]
NoCall == [op |-> "none", id |-> "", tabId |-> "", group |-> NoGroup,
           updates |-> EmptyMap]
CallSave(g) == [NoCall EXCEPT !.op = "save", !.id = g.id, !.group = g]
CallGetAll == [NoCall EXCEPT !.op = "getAll"]
CallUpdate(id, u) == [NoCall EXCEPT !.op = "update", !.id = id, !.updates = u]
CallDelete(id) == [NoCall EXCEPT !.op = "delete", !.id = id]
CallDeleteTab(gid, tid) == [NoCall EXCEPT !.op = "deleteTab", !.id = gid, !.tabId = tid]

\* sel: history, the selection when the operation was called
NoOrch == [kind |-> "none", stage |-> "none", id |-> "", typed |-> <<>>, sel |-> ""]
Orch(kind, id) == [kind |-> kind, stage |-> "write", id |-> id, typed |-> <<>>, sel |-> ""]
NoOutcome == [status |-> "none", err |-> NoError]

IdleTask ==
  [pc |-> "idle", req |-> NoCall, call |-> NoCall, attempt |-> 0, pending |-> EmptyMap,
   orch |-> NoOrch, outcome |-> NoOutcome,
   reads |-> 0, writes |-> 0, delays |-> <<>>, thrown |-> NoError,
   handled |-> 0, pre |-> EmptyMap, clean |-> TRUE, prior |-> NoGroup]

\* Object.values(allGroups).map(deserializeTabGroup)
Deserialized(allGroups) == {deserializeTabGroup(allGroups[k]) : k \in DOMAIN allGroups}

\* the operation passed to withRetry, after getValue has returned allGroups
RunBody(c, allGroups) ==
  CASE c.op = "save" -> saveTabGroup(allGroups, c.group)
    [] c.op = "update" -> updateTabGroup(allGroups, c.id, c.updates)
    [] c.op = "delete" -> deleteTabGroup(allGroups, c.id)
    [] c.op = "deleteTab" -> deleteTabFromGroup(allGroups, c.id, c.tabId)
    [] OTHER -> getTabGroups(allGroups)

\* a withRetry invocation starts: attempt = 0
StartCall(r, c) ==
  [r EXCEPT !.pc = "get", !.call = c, !.attempt = 0, !.pending = EmptyMap,
            !.reads = 0, !.writes = 0, !.delays = <<>>, !.thrown = NoError]

\* the top-level operation settles
Completed(r, status, e, n) ==
  [r EXCEPT !.pc = "done", !.pending = EmptyMap,
            !.outcome = [status |-> status, err |-> e],
            !.handled = r.handled + n]

\* UI state of the dashboard store together with the settling task
Ui(r, tg, sel) == [task |-> r, tabGroups |-> tg, selectedGroupId |-> sel]

NoSelection == ""

\* variant: deleteGroup leaves the selection alone
Resolved_keepsSelection(r, m, tg, sel) ==
  IF r.orch.kind = "none" THEN Ui(Completed(r, "resolved", NoError, 0), tg, sel)
  ELSE IF r.orch.stage = "write"
       THEN Ui([StartCall(r, CallGetAll) EXCEPT !.orch.stage = "reload"], tg, sel)
       ELSE Ui(Completed(r, "resolved", NoError, 0), Deserialized(m), sel)

\* variant: the action returns after its write, without loadGroups
Resolved_noReload(r, m, tg, sel) ==
  IF r.orch.kind = "none" \/ r.orch.stage = "write"
  THEN Ui(Completed(r, "resolved", NoError, 0), tg, sel)
  ELSE Ui(Completed(r, "resolved", NoError, 0), Deserialized(m),
          IF r.orch.kind = "deleteGroup" /\ sel = r.orch.id
          THEN NoSelection ELSE sel)

\* The awaited repository call resolved with value m: the caller continues.
\* useTabStore actions: the write stage is followed by loadGroups; loadGroups
\* replaces the snapshot; deleteGroup then clears a selection of the deleted id.
\* CAPTURE_TABS handler: saveTabGroup is followed by settingsStorage.getValue.
Resolved(r, m, tg, sel) ==
  IF r.orch.kind \in {"none", "onRemoved"}
  THEN Ui(Completed(r, "resolved", NoError, 0), tg, sel)
  ELSE IF r.orch.kind = "CAPTURE_TABS"
       THEN Ui([r EXCEPT !.pc = "settings", !.orch.stage = "close"], tg, sel)
  ELSE IF r.orch.stage = "write"
       THEN Ui([StartCall(r, CallGetAll) EXCEPT !.orch.stage = "reload"], tg, sel)
       ELSE Ui(Completed(r, "resolved", NoError, 0), Deserialized(m),
               IF r.orch.kind = "deleteGroup" /\ sel = r.orch.id
               THEN NoSelection ELSE sel)

\* The awaited repository call rejected with e: handleError in the catch
\* block of the action, after the one of loadGroups when the reload failed.
\* The background handlers have no handleError: CAPTURE_TABS answers with the
\* error, the windows.onRemoved listener logs it.
Rejected(r, e, tg, sel) ==
  IF r.orch.kind \in {"none", "CAPTURE_TABS", "onRemoved"}
  THEN Ui(Completed(r, "rejected", e, 0), tg, sel)
  ELSE IF r.orch.stage = "reload" /\ r.orch.kind # "loadGroups"
       THEN Ui(Completed(r, "rejected", e, 2), tg, sel)
       ELSE Ui(Completed(r, "rejected", e, 1), tg, sel)

\* variant: a quota error is retried like any other
Catch_retriesQuota(r, e, tg, sel) ==
  LET r1 == [r EXCEPT !.pending = EmptyMap]
  IN IF r.attempt = maxRetries
     THEN Rejected(r1, IF IsQuotaMessage(e) THEN StorageQuotaExceededError(e) ELSE e,
                   tg, sel)
     ELSE Ui([r1 EXCEPT !.pc = "sleep",
                        !.delays = Append(r.delays, Delay(r.attempt))], tg, sel)

\* variant: attempt < retries in place of attempt <= retries
Catch_oneAttemptLess(r, e, tg, sel) ==
  LET r1 == [r EXCEPT !.pending = EmptyMap]
  IN IF IsQuotaMessage(e) THEN Rejected(r1, StorageQuotaExceededError(e), tg, sel)
     ELSE IF r.attempt = maxRetries - 1 THEN Rejected(r1, e, tg, sel)
     ELSE Ui([r1 EXCEPT !.pc = "sleep",
                        !.delays = Append(r.delays, Delay(r.attempt))], tg, sel)

\* catch block of withRetry
Catch(r, e, tg, sel) ==
  LET r1 == [r EXCEPT !.pending = EmptyMap]
  IN IF IsQuotaMessage(e) THEN Rejected(r1, StorageQuotaExceededError(e), tg, sel)
     ELSE IF r.attempt = maxRetries THEN Rejected(r1, e, tg, sel)
     ELSE Ui([r1 EXCEPT !.pc = "sleep",
                        !.delays = Append(r.delays, Delay(r.attempt))], tg, sel)

Apply(t, u) ==
  /\ task' = [task EXCEPT ![t] = u.task]
  /\ tabGroups' = u.tabGroups
  /\ selectedGroupId' = u.selectedGroupId

----------------------------------------------------------------------------
(* Steps of a running repository call *)

\* tabGroupsStorage.getValue() returns, the body runs up to setValue
GetValue(t) ==
  /\ task[t].pc = "get"
  /\ LET b == RunBody(task[t].call, store)
         r == [task[t] EXCEPT !.reads = @ + 1, !.thrown = b.err]
     IN CASE b.kind = "write" ->
               Apply(t, Ui([r EXCEPT !.pc = "set", !.pending = b.map],
                           tabGroups, selectedGroupId))
          [] b.kind = "return" ->
               Apply(t, Resolved(r, b.map, tabGroups, selectedGroupId))
          [] OTHER ->
               Apply(t, Catch(r, b.err, tabGroups, selectedGroupId))
  /\ UNCHANGED <<store, known, idPool, tasks, opsLeft, faultsLeft>>
  /\ UNCHANGED hostVars

\* tabGroupsStorage.getValue() rejects
GetValueFails(t, e) ==
  /\ task[t].pc = "get"
  /\ faultsLeft > 0
  /\ faultsLeft' = faultsLeft - 1
  /\ Apply(t, Catch([task[t] EXCEPT !.reads = @ + 1, !.thrown = e], e, tabGroups, selectedGroupId))
  /\ UNCHANGED <<store, known, idPool, tasks, opsLeft>>
  /\ UNCHANGED hostVars

\* tabGroupsStorage.setValue(allGroups) resolves
SetValue(t) ==
  /\ task[t].pc = "set"
  /\ store' = task[t].pending
  /\ LET u == Resolved([task[t] EXCEPT !.writes = @ + 1, !.pending = EmptyMap],
                       task[t].pending, tabGroups, selectedGroupId)
     IN /\ task' = [x \in DOMAIN task |->
                      IF x = t THEN u.task ELSE [task[x] EXCEPT !.clean = FALSE]]
        /\ tabGroups' = u.tabGroups
        /\ selectedGroupId' = u.selectedGroupId
  /\ known' = known \cup DOMAIN task[t].pending
  /\ UNCHANGED <<idPool, tasks, opsLeft, faultsLeft>>
  /\ UNCHANGED hostVars

\* variant: the rejected setValue has stored the map all the same
SetValueFails_writesAnyway(t, e) ==
  /\ task[t].pc = "set"
  /\ faultsLeft > 0
  /\ faultsLeft' = faultsLeft - 1
  /\ store' = task[t].pending
  /\ Apply(t, Catch([task[t] EXCEPT !.writes = @ + 1, !.thrown = e], e, tabGroups, selectedGroupId))
  /\ UNCHANGED <<known, idPool, tasks, opsLeft>>
  /\ UNCHANGED hostVars

\* tabGroupsStorage.setValue(allGroups) rejects
SetValueFails(t, e) ==
  /\ task[t].pc = "set"
  /\ faultsLeft > 0
  /\ faultsLeft' = faultsLeft - 1
  /\ Apply(t, Catch([task[t] EXCEPT !.writes = @ + 1, !.thrown = e], e, tabGroups, selectedGroupId))
  /\ UNCHANGED <<store, known, idPool, tasks, opsLeft>>
  /\ UNCHANGED hostVars

\* setTimeout(resolve, delay) fires: next iteration of the for loop
TimerFires(t) ==
  /\ task[t].pc = "sleep"
  /\ task' = [task EXCEPT ![t].pc = "get", ![t].attempt = @ + 1]
  /\ UNCHANGED <<store, tabGroups, selectedGroupId, known,
                 idPool, tasks, opsLeft, faultsLeft>>
  /\ UNCHANGED hostVars

----------------------------------------------------------------------------
(* Inputs *)

TabIds == {"t1", "t2"}

\* a history snapshot (no name) or a named group
GroupOf(id, kind, createdAt) ==
  IF kind = "history"
  THEN [id |-> id, name |-> NoName, createdAt |-> createdAt,
        tabs |-> <<TabA, TabB>>, isHistory |-> TRUE]
  ELSE [id |-> id, name |-> <<"X">>, createdAt |-> createdAt,
        tabs |-> <<TabB>>, isHistory |-> FALSE]

Kinds == {"history", "named"}

\* groups handed to saveTabGroup
Groups == {GroupOf(i, k, c) : i \in idPool, k \in Kinds, c \in Times}

\* Partial<TabGroup>
Partials ==
  {[name |-> <<"Y">>], [isHistory |-> TRUE], [tabs |-> <<>>],
   [createdAt |-> MaxTime], [id |-> "g2"]}

\* names typed into the conversion dialog
TypedNames == {<<" ">>, <<" ", "Z", " ">>}

\* what captureCurrentWindow returns
Captures == {<<>>, <<TabB, TabA>>}

----------------------------------------------------------------------------
(* Top-level operations *)

CanBegin(t) ==
  /\ t \in tasks
  /\ task[t].pc \in {"idle", "done"}
  /\ opsLeft > 0

\* history: the group of the operation that has just completed, when that was
\* a direct save that resolved on an id the store did not hold, with no write
\* of another task since it began
PriorOf(r) ==
  IF /\ r.pc = "done" /\ r.orch.kind = "none" /\ r.req.op = "save"
     /\ r.outcome.status = "resolved" /\ r.clean /\ r.req.id \notin DOMAIN r.pre
  THEN r.req.group ELSE NoGroup

\* a task starts a top-level operation whose first repository call is c
Begin(t, o, c) ==
  /\ opsLeft' = opsLeft - 1
  /\ task' = [task EXCEPT ![t] =
       [StartCall(task[t], c) EXCEPT !.req = c, !.orch = [o EXCEPT !.sel = selectedGroupId],
                                     !.outcome = NoOutcome,
                                     !.handled = 0, !.pre = store, !.clean = TRUE,
                                     !.prior = PriorOf(task[t])]]
  /\ UNCHANGED <<store, tabGroups, selectedGroupId, idPool, tasks, faultsLeft>>
  /\ UNCHANGED hostVars

\* a top-level operation of the dashboard store rejects before any repository call
Refuse(t, o, e) ==
  /\ opsLeft' = opsLeft - 1
  /\ task' = [task EXCEPT ![t] =
       [Completed(StartCall(task[t], NoCall), "rejected", e, 0)
          EXCEPT !.req = NoCall, !.orch = [o EXCEPT !.sel = selectedGroupId],
                 !.handled = 1, !.pre = store,
                 !.clean = TRUE, !.prior = NoGroup]]
  /\ UNCHANGED <<store, tabGroups, selectedGroupId, idPool, tasks, faultsLeft>>
  /\ UNCHANGED hostVars

(* saveTabGroup called directly, as the background handlers do *)

RepoSave(t, g) ==
  /\ CanBegin(t)
  /\ Begin(t, NoOrch, CallSave(g))
  /\ known' = known \cup {g.id}

(* useTabStore actions *)

ValidationError == Err("Error", "EmptyName", {})
EmptyCaptureError == Err("Error", "NoTabs", {})

loadGroups ==
  /\ CanBegin(Dashboard)
  /\ Begin(Dashboard, [Orch("loadGroups", "") EXCEPT !.stage = "reload"], CallGetAll)
  /\ UNCHANGED known

\* variant: a capture of zero tabs is saved like any other
saveGroup_savesEmpty(name, isHistory, tabs, id, now) ==
  /\ CanBegin(Dashboard)
  /\ id \notin known
  /\ Begin(Dashboard, Orch("saveGroup", id),
           CallSave([id |-> id, name |-> name, createdAt |-> now,
                     tabs |-> tabs, isHistory |-> isHistory]))
  /\ known' = known \cup {id}

\* variant: the id of the new group may be one already in use
saveGroup_reusesId(name, isHistory, tabs, id, now) ==
  /\ CanBegin(Dashboard)
  /\ IF Len(tabs) = 0
     THEN /\ Refuse(Dashboard, Orch("saveGroup", ""), EmptyCaptureError)
          /\ UNCHANGED known
     ELSE /\ Begin(Dashboard, Orch("saveGroup", id),
                   CallSave([id |-> id, name |-> name, createdAt |-> now,
                             tabs |-> tabs, isHistory |-> isHistory]))
          /\ known' = known \cup {id}

saveGroup(name, isHistory, tabs, id, now) ==
  /\ CanBegin(Dashboard)
  /\ IF Len(tabs) = 0
     THEN /\ Refuse(Dashboard, Orch("saveGroup", ""), EmptyCaptureError)
          /\ UNCHANGED known
     ELSE /\ id \notin known
          /\ Begin(Dashboard, Orch("saveGroup", id),
                   CallSave([id |-> id, name |-> name, createdAt |-> now,
                             tabs |-> tabs, isHistory |-> isHistory]))
          /\ known' = known \cup {id}

updateGroup(id, updates) ==
  /\ CanBegin(Dashboard)
  /\ Begin(Dashboard, Orch("updateGroup", id), CallUpdate(id, updates))
  /\ UNCHANGED known

deleteGroup(id) ==
  /\ CanBegin(Dashboard)
  /\ Begin(Dashboard, Orch("deleteGroup", id), CallDelete(id))
  /\ UNCHANGED known

deleteTab(groupId, tabId) ==
  /\ CanBegin(Dashboard)
  /\ Begin(Dashboard, Orch("deleteTab", groupId), CallDeleteTab(groupId, tabId))
  /\ UNCHANGED known

\* variant: the typed name is not validated
convertToNamed_noValidation(groupId, name) ==
  /\ CanBegin(Dashboard)
  /\ Begin(Dashboard, [Orch("convertToNamed", groupId) EXCEPT !.typed = name],
           CallUpdate(groupId, [name |-> Trim(name), isHistory |-> FALSE]))
  /\ UNCHANGED known

\* variant: the conversion renames the group and leaves isHistory alone
convertToNamed_renameOnly(groupId, name) ==
  /\ CanBegin(Dashboard)
  /\ IF Len(Trim(name)) = 0
     THEN Refuse(Dashboard, [Orch("convertToNamed", groupId) EXCEPT !.typed = name],
                 ValidationError)
     ELSE Begin(Dashboard, [Orch("convertToNamed", groupId) EXCEPT !.typed = name],
                CallUpdate(groupId, [name |-> Trim(name)]))
  /\ UNCHANGED known

convertToNamed(groupId, name) ==
  /\ CanBegin(Dashboard)
  /\ IF Len(Trim(name)) = 0
     THEN Refuse(Dashboard, [Orch("convertToNamed", groupId) EXCEPT !.typed = name],
                 ValidationError)
     ELSE Begin(Dashboard, [Orch("convertToNamed", groupId) EXCEPT !.typed = name],
                CallUpdate(groupId, [name |-> Trim(name), isHistory |-> FALSE]))
  /\ UNCHANGED known

(* TabGroupCard: the edited title is saved on Enter *)

\* saveTitle: tabStore.updateGroup(props.group.id, {name: editedTitle.trim()})
\* when the trimmed title is not empty; the card shows a group of the snapshot
saveTitle(id, editedTitle) ==
  /\ CanBegin(TitleEdit)
  /\ \E g \in tabGroups : g.id = id
  /\ Len(Trim(editedTitle)) > 0
  /\ Begin(TitleEdit, Orch("updateGroup", id), CallUpdate(id, [name |-> Trim(editedTitle)]))
  /\ UNCHANGED known

(* background: the message handlers *)

\* a top-level operation of the background rejects before its repository call
Fail(t, o, e) ==
  /\ opsLeft' = opsLeft - 1
  /\ task' = [task EXCEPT ![t] =
       [Completed(StartCall(task[t], NoCall), "rejected", e, 0)
          EXCEPT !.req = NoCall, !.orch = [o EXCEPT !.sel = selectedGroupId],
                 !.handled = 0, !.pre = store, !.clean = TRUE, !.prior = NoGroup]]
  /\ UNCHANGED <<store, tabGroups, selectedGroupId, idPool, tasks, faultsLeft>>
  /\ UNCHANGED hostVars

\* case 'CAPTURE_TABS', up to the call of saveTabGroup
CAPTURE_TABS(name, isHistory, id, now, host) ==
  /\ CanBegin(Background)
  /\ LET res == captureCurrentWindow(window, host) IN
       IF res.status = "rejected"
       THEN /\ Fail(Background, [Orch("CAPTURE_TABS", "") EXCEPT !.stage = "capture"], res.err)
            /\ UNCHANGED known
       ELSE /\ id \notin known
            /\ Begin(Background, Orch("CAPTURE_TABS", id),
                     CallSave([id |-> id, name |-> name, createdAt |-> now,
                               tabs |-> res.items, isHistory |-> isHistory]))
            /\ known' = known \cup {id}

\* browser.windows.onRemoved listener: when no window remains and tabs.query({})
\* still returns tabs, all of them are saved, unfiltered, as a history group
onRemoved(remaining, id, now) ==
  /\ CanBegin(Background)
  /\ remaining = 0
  /\ Len(window) > 0
  /\ id \notin known
  /\ Begin(Background, Orch("onRemoved", id),
           CallSave([id |-> id, name |-> NoName, createdAt |-> now,
                     tabs |-> [i \in 1..Len(window) |-> ToTabItem(window[i], i)],
                     isHistory |-> TRUE]))
  /\ known' = known \cup {id}

\* the window after tabs.remove has rejected: the host closes the tabs of the
\* list one by one, k of them were closed before the failing one
AfterRemove(res, tabs, k) ==
  IF res.status = "resolved" THEN <<>>
  ELSE IF res.calls # <<>> /\ res.calls[Len(res.calls)] = RemoveCall
       THEN SubSeq(tabs, k + 1, Len(tabs))
       ELSE tabs

\* variant: the tabs are closed whatever the setting says
AutoClose_ignoresSetting(t, host, outcome, k) ==
  /\ t \in tasks
  /\ task[t].pc = "settings"
  /\ k \in 0..(Len(window) - 1) \cup {0}
  /\ LET res == closeCurrentTabs(window, host, outcome) IN
       /\ tabOp' = TabOp("closeCurrentTabs", <<>>, host, <<outcome>>, res)
       /\ window' = AfterRemove(res, window, k)
       /\ task' = [task EXCEPT ![t] = Completed(task[t], res.status, res.err, 0)]
  /\ UNCHANGED <<store, tabGroups, selectedGroupId, known, idPool, tasks,
                 opsLeft, faultsLeft, autoCloseAfterSave>>

\* case 'CAPTURE_TABS', after saveTabGroup: settingsStorage.getValue(),
\* closeCurrentTabs() when autoCloseAfterSave is set, sendResponse
AutoClose(t, host, outcome, k) ==
  /\ t \in tasks
  /\ task[t].pc = "settings"
  /\ k \in 0..(Len(window) - 1) \cup {0}
  /\ IF autoCloseAfterSave
     THEN LET res == closeCurrentTabs(window, host, outcome) IN
            /\ tabOp' = TabOp("closeCurrentTabs", <<>>, host, <<outcome>>, res)
            /\ window' = AfterRemove(res, window, k)
            /\ task' = [task EXCEPT ![t] = Completed(task[t], res.status, res.err, 0)]
     ELSE /\ task' = [task EXCEPT ![t] = Completed(task[t], "resolved", NoError, 0)]
          /\ UNCHANGED <<window, tabOp>>
  /\ UNCHANGED <<store, tabGroups, selectedGroupId, known, idPool, tasks,
                 opsLeft, faultsLeft, autoCloseAfterSave>>

\* a handler that is one call of the tab manager
CallTabs(op, items, host, outcomes, res, tabs) ==
  /\ Background \in tasks
  /\ opsLeft > 0
  /\ opsLeft' = opsLeft - 1
  /\ tabOp' = TabOp(op, items, host, outcomes, res)
  /\ window' = tabs
  /\ UNCHANGED <<store, task, tabGroups, selectedGroupId, known, idPool, tasks,
                 faultsLeft, autoCloseAfterSave>>

\* case 'OPEN_TABS'
OPEN_TABS(tabs, host, outcomes) ==
  LET res == openTabs(tabs, host, outcomes)
  IN CallTabs("openTabs", tabs, host, outcomes, res, WithOpened(window, res.opened))

\* case 'OPEN_SINGLE_TAB'
OPEN_SINGLE_TAB(tab, host, outcome) ==
  LET res == openSingleTab(tab, host, outcome)
  IN CallTabs("openSingleTab", <<tab>>, host, <<outcome>>, res,
              WithOpened(window, res.opened))

\* case 'CLOSE_CURRENT_TABS'
CLOSE_CURRENT_TABS(host, outcome, k) ==
  /\ k \in 0..(Len(window) - 1) \cup {0}
  /\ LET res == closeCurrentTabs(window, host, outcome)
     IN CallTabs("closeCurrentTabs", <<>>, host, <<outcome>>, res,
                 AfterRemove(res, window, k))

(* dashboard page: a sidebar entry is clicked *)

HistoryEntry == "history"

\* the menu shows one entry for the history groups, when there are any, and
\* one entry per named group of the snapshot
MenuEntries ==
  (IF \E g \in tabGroups : g.isHistory THEN {HistoryEntry} ELSE {})
  \cup {g.id : g \in {x \in tabGroups : ~x.isHistory}}

selectGroup(entry) ==
  /\ Dashboard \in tasks
  /\ entry \in MenuEntries
  /\ selectedGroupId # entry
  /\ selectedGroupId' = entry
  /\ UNCHANGED <<store, task, tabGroups, known, idPool, tasks, opsLeft, faultsLeft>>
  /\ UNCHANGED hostVars

----------------------------------------------------------------------------
(* Specification *)

Surfaces == {Dashboard, Background, TitleEdit}

RetryOps == 2
ConcOps == 2
SelectOps == 2

InitWith(ts, ids, ops, f) ==
  /\ store = EmptyMap
  /\ task = [t \in Surfaces |-> IdleTask]
  /\ tabGroups = {}
  /\ selectedGroupId = NoSelection
  /\ known = {}
  /\ idPool = ids
  /\ tasks = ts
  /\ opsLeft = ops
  /\ faultsLeft = f
  /\ window = <<>>
  /\ autoCloseAfterSave = TRUE
  /\ tabOp = NoTabOp

Progress ==
  \/ \E t \in tasks : GetValue(t)
  \/ \E t \in tasks : SetValue(t)
  \/ \E t \in tasks : TimerFires(t)

Faults ==
  \/ \E t \in tasks, e \in StorageFaults : GetValueFails(t, e)
  \/ \E t \in tasks, e \in StorageFaults : SetValueFails(t, e)

DirectSaves ==
  \E t \in tasks, g \in Groups : RepoSave(t, g)

StoreActions ==
  \/ loadGroups
  \/ \E k \in Kinds, ts \in Captures, id \in idPool, c \in Times :
       saveGroup(GroupOf(id, k, c).name, GroupOf(id, k, c).isHistory, ts, id, c)
  \/ \E id \in idPool, u \in Partials : updateGroup(id, u)
  \/ \E id \in idPool : deleteGroup(id)
  \/ \E id \in idPool, tid \in TabIds : deleteTab(id, tid)
  \/ \E id \in idPool, n \in TypedNames : convertToNamed(id, n)

\* the dashboard page alone, the store does not fail
Init == InitWith({Dashboard}, {"g1", "g2"}, MaxOps, 0)
Next == Progress \/ DirectSaves \/ StoreActions
Spec == Init /\ [][Next]_vars

\* the dashboard page alone with one group id, every attempt of a call may fail
InitRetry == InitWith({Dashboard}, {"g1"}, RetryOps, MaxFaults)
NextRetry == Progress \/ Faults \/ DirectSaves \/ StoreActions
SpecRetry == InitRetry /\ [][NextRetry]_vars

\* the dashboard page and the background worker, the store does not fail
InitConc == InitWith({Dashboard, Background}, {"g1", "g2"}, ConcOps, 0)
NextConc == Progress \/ DirectSaves \/ StoreActions
SpecConc == InitConc /\ [][NextConc]_vars

\* both surfaces on a store that holds one history group saved earlier and
\* loaded by the dashboard
SharedStore == Put(EmptyMap, "g1", serializeTabGroup(GroupOf("g1", "history", 1)))

InitShared ==
  /\ store = SharedStore
  /\ task = [t \in Surfaces |-> IdleTask]
  /\ tabGroups = Deserialized(SharedStore)
  /\ selectedGroupId = NoSelection
  /\ known = DOMAIN SharedStore
  /\ idPool = {"g1", "g2"}
  /\ tasks = {Dashboard, Background}
  /\ opsLeft = ConcOps
  /\ faultsLeft = 0
  /\ window = <<>>
  /\ autoCloseAfterSave = TRUE
  /\ tabOp = NoTabOp

NextShared == Progress \/ DirectSaves \/ StoreActions
SpecShared == InitShared /\ [][NextShared]_vars

\* the dashboard page alone on a store that holds one group it has loaded;
\* a title may be saved while an action of the store is awaiting
TitleEdits == \E id \in idPool, n \in TypedNames : saveTitle(id, n)

InitReentrant ==
  /\ store = SharedStore
  /\ task = [t \in Surfaces |-> IdleTask]
  /\ tabGroups = Deserialized(SharedStore)
  /\ selectedGroupId = NoSelection
  /\ known = DOMAIN SharedStore
  /\ idPool = {"g1", "g2"}
  /\ tasks = {Dashboard, TitleEdit}
  /\ opsLeft = ConcOps
  /\ faultsLeft = 0
  /\ window = <<>>
  /\ autoCloseAfterSave = TRUE
  /\ tabOp = NoTabOp

NextReentrant == Progress \/ StoreActions \/ TitleEdits
SpecReentrant == InitReentrant /\ [][NextReentrant]_vars

\* the dashboard page alone, with its sidebar
Selection == \E e \in idPool \cup {HistoryEntry} : selectGroup(e)

InitSelect == InitWith({Dashboard}, {"g1", "g2"}, SelectOps, 0)
NextSelect == Progress \/ DirectSaves \/ StoreActions \/ Selection
SpecSelect == InitSelect /\ [][NextSelect]_vars

\* the background worker alone: one message, on any window of up to MaxTabs
\* tabs and either setting; the store may fail
HostTabs ==
  {HostTab("https://a.example", "A", NoFavicon),
   HostTab("https://b.example", NoTitle, "https://b.example/i.png"),
   HostTab("chrome://settings", "Settings", NoFavicon),
   HostTab("data:text/html,hi", "D", NoFavicon),
   HostTab(NoUrl, "New Tab", NoFavicon),
   HostTab("not a url", "Bad", NoFavicon)}

SeqsUpTo(S, n) == UNION {[1..k -> S] : k \in 0..n}

Windows == SeqsUpTo(HostTabs, MaxTabs)

\* the urls of stored tab items handed to openTabs and openSingleTab
ItemUrls == {"https://a.example", "data:text/html,hi", "not a url"}
AllUrls ==
  ItemUrls \cup {"https://b.example", "chrome://settings", "about:blank", "",
                 "chrome-extension://abc/page.html", "javascript:void(0)"}
ItemOf(url) == [id |-> "t1", url |-> url, title |-> "T", faviconUrl |-> NoFavicon]

InitTabs ==
  /\ store = EmptyMap
  /\ task = [t \in Surfaces |-> IdleTask]
  /\ tabGroups = {}
  /\ selectedGroupId = NoSelection
  /\ known = {}
  /\ idPool = {"g1"}
  /\ tasks = {Background}
  /\ opsLeft = 1
  /\ faultsLeft = 1
  /\ window \in Windows
  /\ autoCloseAfterSave \in BOOLEAN
  /\ tabOp = NoTabOp

CaptureMessages ==
  \/ \E k \in Kinds, id \in idPool, c \in Times, h \in HostOutcomes :
       CAPTURE_TABS(GroupOf(id, k, c).name, GroupOf(id, k, c).isHistory, id, c, h)
  \/ \E t \in tasks, h \in HostOutcomes, o \in RemoveOutcomes, k \in 0..MaxTabs :
       AutoClose(t, h, o, k)
  \/ \E h \in HostOutcomes, o \in RemoveOutcomes, k \in 0..MaxTabs :
       CLOSE_CURRENT_TABS(h, o, k)
  \/ \E n \in 0..1, id \in idPool, c \in Times : onRemoved(n, id, c)

NextTabs == Progress \/ Faults \/ CaptureMessages
SpecTabs == InitTabs /\ [][NextTabs]_vars

\* the background worker alone: one message that restores tabs, in a window
\* that shows the dashboard
InitOpen ==
  /\ store = EmptyMap
  /\ task = [t \in Surfaces |-> IdleTask]
  /\ tabGroups = {}
  /\ selectedGroupId = NoSelection
  /\ known = {}
  /\ idPool = {"g1"}
  /\ tasks = {Background}
  /\ opsLeft = 1
  /\ faultsLeft = 0
  /\ window = <<HostTab("chrome-extension://abc/page.html", "PackTabs", NoFavicon)>>
  /\ autoCloseAfterSave = TRUE
  /\ tabOp = NoTabOp

OpenMessages ==
  \/ \E ts \in SeqsUpTo({ItemOf(u) : u \in ItemUrls}, MaxTabs), h \in HostOutcomes :
       \E os \in [1..Len(ts) -> HostOutcomes] : OPEN_TABS(ts, h, os)
  \/ \E u \in AllUrls, h \in HostOutcomes, o \in HostOutcomes :
       OPEN_SINGLE_TAB(ItemOf(u), h, o)

NextOpen == OpenMessages
SpecOpen == InitOpen /\ [][NextOpen]_vars

\* the dashboard page alone on a store that holds one record whose createdAt
\* cannot be parsed
CorruptOps == 2
CorruptStore ==
  Put(EmptyMap, "g1",
      [serializeTabGroup(GroupOf("g1", "history", 1)) EXCEPT !.createdAt = Garbled])

InitCorrupt ==
  /\ store = CorruptStore
  /\ task = [t \in Surfaces |-> IdleTask]
  /\ tabGroups = {}
  /\ selectedGroupId = NoSelection
  /\ known = DOMAIN CorruptStore
  /\ idPool = {"g1"}
  /\ tasks = {Dashboard}
  /\ opsLeft = CorruptOps
  /\ faultsLeft = 0
  /\ window = <<>>
  /\ autoCloseAfterSave = TRUE
  /\ tabOp = NoTabOp

NextCorrupt == Progress \/ DirectSaves \/ StoreActions
SpecCorrupt == InitCorrupt /\ [][NextCorrupt]_vars

\* the dashboard page alone; the ids handed to the actions need not be ids of
\* stored groups
TargetOps == 2
TargetIds == {"g1", "g9", "quota-g"}

TargetActions ==
  \/ loadGroups
  \/ \E k \in Kinds, ts \in Captures, id \in idPool, c \in Times :
       saveGroup(GroupOf(id, k, c).name, GroupOf(id, k, c).isHistory, ts, id, c)
  \/ \E id \in TargetIds, u \in Partials : updateGroup(id, u)
  \/ \E id \in TargetIds : deleteGroup(id)
  \/ \E id \in TargetIds, tid \in TabIds : deleteTab(id, tid)

InitTargets == InitWith({Dashboard}, {"g1"}, TargetOps, 0)
NextTargets == Progress \/ TargetActions
SpecTargets == InitTargets /\ [][NextTargets]_vars

----------------------------------------------------------------------------
(* Derived views of useTabStore *)

historyGroups == {g \in tabGroups : g.isHistory}

\* variant: the filter of namedGroups is missing
namedGroups_all == tabGroups

namedGroups == {g \in tabGroups : ~g.isHistory}

\* tabGroups.find(g => g.id === selectedGroupId) ?? null
NoSelectedGroup == NoGroup
selectedGroup ==
  IF \E g \in tabGroups : g.id = selectedGroupId
  THEN CHOOSE g \in tabGroups : g.id = selectedGroupId
  ELSE NoSelectedGroup

----------------------------------------------------------------------------
(* Properties *)

Done(t) == task[t].pc = "done"
Resolves(t) == Done(t) /\ task[t].outcome.status = "resolved"
Rejects(t) == Done(t) /\ task[t].outcome.status = "rejected"
Mutations == {"save", "update", "delete", "deleteTab"}

\* the fields of a stored record that the presentation layer sees
SameGroup(a, b) ==
  /\ a.name = b.name
  /\ a.isHistory = b.isHistory
  /\ a.tabs = b.tabs
  /\ ParseDate(a.createdAt) = ParseDate(b.createdAt)

\* C1 Isolation: while and after a task runs a repository mutation on group A
\* with no write of another task since it began, every other group B is in
\* the store iff it was there when the mutation began, with the same name,
\* isHistory, tabs and createdAt, whether the mutation succeeds or fails.
C1_Isolation ==
  \A t \in tasks :
    (task[t].pc # "idle" /\ task[t].clean /\ task[t].req.op \in Mutations) =>
      \A B \in idPool \ {task[t].req.id} :
        /\ (B \in DOMAIN store) <=> (B \in DOMAIN task[t].pre)
        /\ B \in DOMAIN store => SameGroup(store[B], task[t].pre[B])

\* a mutation of A has changed A's record while another group is stored
C1_Witness ==
  \E t \in tasks :
    /\ Resolves(t) /\ task[t].clean /\ task[t].req.op \in {"update", "delete", "deleteTab"}
    /\ task[t].req.id \in DOMAIN task[t].pre
    /\ \E B \in DOMAIN store : B # task[t].req.id
    /\ \/ task[t].req.id \notin DOMAIN store
       \/ store[task[t].req.id] # task[t].pre[task[t].req.id]

\* C2 Reload-after-write: when a mutating action of the dashboard store has
\* resolved and no other task has written since it began, the snapshot
\* tabGroups is the deserialization of exactly the records in the store.
C2_ReloadAfterWrite ==
  (/\ Resolves(Dashboard) /\ task[Dashboard].clean
   /\ task[Dashboard].orch.kind \in
        {"saveGroup", "updateGroup", "deleteGroup", "deleteTab", "convertToNamed"})
  => /\ Cardinality(tabGroups) = Cardinality(DOMAIN store)
     /\ \A k \in DOMAIN store :
          \E g \in tabGroups :
            /\ g.id = store[k].id /\ g.name = store[k].name
            /\ g.isHistory = store[k].isHistory /\ g.tabs = store[k].tabs
            /\ g.createdAt = store[k].createdAt.ms

\* a mutating action resolved on a store that held a group before and whose
\* content it changed
C2_Witness ==
  /\ Resolves(Dashboard) /\ task[Dashboard].clean
  /\ task[Dashboard].orch.kind \in {"updateGroup", "deleteGroup", "deleteTab", "convertToNamed"}
  /\ task[Dashboard].pre # store
  /\ DOMAIN store # {}

\* C3 Conflict rule: a direct save of g on an id that holds record s, with no
\* other writer, leaves s when s.createdAt > g.createdAt and the wire form of
\* g otherwise (ties included); the save resolves without error in both cases.
C3_ConflictRule ==
  \A t \in tasks :
    LET r == task[t]
        g == r.req.group
    IN (/\ Done(t) /\ r.clean /\ r.orch.kind = "none" /\ r.req.op = "save"
        /\ g.id \in DOMAIN r.pre)
       => /\ Resolves(t) =>
               IF r.pre[g.id].createdAt.ms > g.createdAt
               THEN store[g.id] = r.pre[g.id]
               ELSE /\ store[g.id].id = g.id /\ store[g.id].name = g.name
                    /\ store[g.id].tabs = g.tabs
                    /\ store[g.id].isHistory = g.isHistory
                    /\ store[g.id].createdAt = [iso |-> TRUE, ms |-> g.createdAt]
          /\ ~Rejects(t)

\* a save met a different record with the same createdAt and replaced it
C3_Witness ==
  \E t \in tasks :
    LET r == task[t] IN
      /\ Resolves(t) /\ r.clean /\ r.orch.kind = "none" /\ r.req.op = "save"
      /\ r.req.id \in DOMAIN r.pre
      /\ r.pre[r.req.id].createdAt.ms = r.req.group.createdAt
      /\ r.pre[r.req.id].name # r.req.group.name
      /\ store[r.req.id].name = r.req.group.name

\* C4 Scenario B: two direct saves of one id with different createdAt, run
\* one after the other in either order on a store that did not hold the id,
\* with no other writer: the stored record, as getAll returns it, is the
\* group of the save with the larger createdAt.
C4_OrderIndependence ==
  \A t \in tasks :
    LET r == task[t]
        a == r.prior
        b == r.req.group
    IN (/\ Resolves(t) /\ r.clean /\ r.orch.kind = "none" /\ r.req.op = "save"
        /\ a # NoGroup /\ a.id = b.id /\ a.createdAt # b.createdAt)
       => LET newer == IF a.createdAt > b.createdAt THEN a ELSE b
          IN \E got \in Deserialized(store) : got = newer

\* the older save came second and left the newer record in place
C4_Witness ==
  \E t \in tasks :
    LET r == task[t] IN
      /\ Resolves(t) /\ r.clean /\ r.orch.kind = "none" /\ r.req.op = "save"
      /\ r.prior # NoGroup /\ r.prior.id = r.req.id
      /\ r.prior.createdAt > r.req.group.createdAt
      /\ r.prior.name # r.req.group.name

\* a direct save of group g has resolved for task t
SavedDirectly(t) ==
  Resolves(t) /\ task[t].orch.kind = "none" /\ task[t].req.op = "save"

\* C5 Concurrent saves are arbitrated: when two surfaces have each completed a
\* direct save of the same id, both begun on a store that did not hold the
\* id, with createdAt T1 < T2, the stored record is the T2 one, however
\* their getValue and setValue steps interleaved.
C5_ConcurrentSavesArbitrated ==
  \A a, b \in tasks :
    LET ga == task[a].req.group
        gb == task[b].req.group
    IN (/\ a # b /\ SavedDirectly(a) /\ SavedDirectly(b)
        /\ ga.id = gb.id /\ ga.createdAt < gb.createdAt
        /\ ga.id \notin DOMAIN task[a].pre /\ gb.id \notin DOMAIN task[b].pre)
       => /\ ga.id \in DOMAIN store
          /\ deserializeTabGroup(store[ga.id]) = gb

\* C6 Quota errors are not retried: once an attempt has thrown a quota
\* error, the call is over: it is rejected with StorageQuotaExceededError,
\* the operation was invoked once per attempt up to that one, and only the
\* delays of the earlier failed attempts were waited.
C6_QuotaNotRetried ==
  \A t \in tasks :
    task[t].thrown.kind = "QUOTA_BYTES" =>
      /\ Rejects(t)
      /\ task[t].outcome.err.cls = "StorageQuotaExceededError"
      /\ task[t].outcome.err.kind = "QUOTA_BYTES"
      /\ task[t].reads = task[t].attempt + 1
      /\ Len(task[t].delays) = task[t].attempt

\* a quota error on the write of the second attempt
C6_Witness ==
  \E t \in tasks :
    /\ task[t].thrown.kind = "QUOTA_BYTES" /\ Rejects(t)
    /\ task[t].attempt = 1 /\ task[t].writes = 1
    /\ task[t].delays = <<100>>

C8_DomainErrorsNotRetried ==
  \A t \in tasks :
    (Rejects(t) /\ task[t].outcome.err.kind \in {"GroupNotFound", "TabNotFound"})
      => /\ task[t].reads = 1
         /\ task[t].delays = <<>>

\* C9 Deletion precision: after deleteTab(g, t) has resolved on a stored group
\* that held a tab with id t, with no other writer, the stored tabs are the
\* former sequence without one entry of id t, the others in their order and
\* unchanged, and id, name, isHistory and createdAt are as before.
C9_DeletionPrecision ==
  \A t \in tasks :
    LET r == task[t] IN
      (/\ Resolves(t) /\ r.clean /\ r.req.op = "deleteTab"
       /\ r.req.id \in DOMAIN r.pre
       /\ \E i \in 1..Len(r.pre[r.req.id].tabs) : r.pre[r.req.id].tabs[i].id = r.req.tabId)
      => /\ r.req.id \in DOMAIN store
         /\ LET old == r.pre[r.req.id]
                new == store[r.req.id]
            IN /\ new.id = old.id /\ new.name = old.name
               /\ new.isHistory = old.isHistory /\ new.createdAt = old.createdAt
               /\ Len(new.tabs) = Len(old.tabs) - 1
               /\ \E i \in 1..Len(old.tabs) :
                    /\ old.tabs[i].id = r.req.tabId
                    /\ \A j \in 1..(i - 1) : new.tabs[j] = old.tabs[j]
                    /\ \A j \in i..Len(new.tabs) : new.tabs[j] = old.tabs[j + 1]
               /\ \A j \in 1..Len(new.tabs) : new.tabs[j].id # r.req.tabId

\* the second of two tabs was deleted
C9_Witness ==
  \E t \in tasks :
    LET r == task[t] IN
      /\ Resolves(t) /\ r.clean /\ r.req.op = "deleteTab" /\ r.req.tabId = "t2"
      /\ r.req.id \in DOMAIN r.pre /\ r.req.id \in DOMAIN store
      /\ Len(r.pre[r.req.id].tabs) = 2 /\ Len(store[r.req.id].tabs) = 1

\* name is typed without its leading and trailing spaces
IsTrimOf(name, typed) ==
  /\ name # <<>> /\ name[1] # " " /\ name[Len(name)] # " "
  /\ \E i \in 1..Len(typed) :
       /\ i + Len(name) - 1 <= Len(typed)
       /\ name = SubSeq(typed, i, i + Len(name) - 1)
       /\ \A k \in 1..Len(typed) : (k < i \/ k > i + Len(name) - 1) => typed[k] = " "

\* C10 Conversion: after convertToNamed(id, X) has resolved on a stored
\* history group, with no other writer, the record has isHistory = false,
\* name = X trimmed, and the id, createdAt and tabs it had; the group is in
\* namedGroups and not in historyGroups, and the number of groups is the same.
C10_Conversion ==
  LET r == task[Dashboard] IN
    (/\ Resolves(Dashboard) /\ r.clean /\ r.orch.kind = "convertToNamed"
     /\ r.orch.id \in DOMAIN r.pre /\ r.pre[r.orch.id].isHistory)
    => /\ r.orch.id \in DOMAIN store
       /\ LET old == r.pre[r.orch.id]
              new == store[r.orch.id]
          IN /\ new.isHistory = FALSE
             /\ IsTrimOf(new.name, r.orch.typed)
             /\ new.id = old.id /\ new.createdAt = old.createdAt /\ new.tabs = old.tabs
       /\ \E g \in namedGroups : g.id = r.orch.id
       /\ \A g \in historyGroups : g.id # r.orch.id
       /\ Cardinality(tabGroups) = Cardinality(DOMAIN r.pre)
       /\ DOMAIN store = DOMAIN r.pre

\* a history group was converted under a name typed with surrounding spaces
C10_Witness ==
  LET r == task[Dashboard] IN
    /\ Resolves(Dashboard) /\ r.clean /\ r.orch.kind = "convertToNamed"
    /\ r.orch.id \in DOMAIN r.pre /\ r.pre[r.orch.id].isHistory
    /\ r.orch.typed = <<" ", "Z", " ">>
    /\ r.orch.id \in DOMAIN store /\ store[r.orch.id].name = <<"Z">>

\* the operations of the dashboard store that write
StoreMutations == {"saveGroup", "updateGroup", "deleteGroup", "deleteTab", "convertToNamed"}

\* C11 Conversion validation: a convertToNamed whose typed name is empty
\* after trimming is rejected with the validation error without any read or
\* write of the repository, and the step that rejects it leaves the store and
\* the snapshot as they were.
C11_ConversionValidation ==
  /\ [](LET r == task[Dashboard] IN
          (r.pc # "idle" /\ r.orch.kind = "convertToNamed" /\ Len(Trim(r.orch.typed)) = 0)
          => /\ Rejects(Dashboard)
             /\ r.outcome.err = ValidationError
             /\ r.req = NoCall /\ r.call = NoCall
             /\ r.reads = 0 /\ r.writes = 0
             /\ r.clean => store = r.pre)
  /\ [][(/\ opsLeft' # opsLeft
         /\ task'[Dashboard].orch.kind = "convertToNamed"
         /\ Len(Trim(task'[Dashboard].orch.typed)) = 0)
        => /\ store' = store
           /\ tabGroups' = tabGroups
           /\ selectedGroupId' = selectedGroupId]_vars

\* a blank name was typed for a stored history group, which is still history
C11_Witness ==
  LET r == task[Dashboard] IN
    /\ Rejects(Dashboard) /\ r.orch.kind = "convertToNamed"
    /\ r.orch.typed = <<" ">> /\ r.outcome.err = ValidationError
    /\ r.orch.id \in DOMAIN store
    /\ store[r.orch.id].isHistory /\ store[r.orch.id].name = NoName
    /\ tabGroups # {}

\* the call names a group that map m does not hold, or a tab its group lacks
AbsentTarget(c, m) ==
  \/ c.op \in {"update", "delete", "deleteTab"} /\ c.id \notin DOMAIN m
  \/ /\ c.op = "deleteTab" /\ c.id \in DOMAIN m
     /\ \A i \in 1..Len(m[c.id].tabs) : m[c.id].tabs[i].id # c.tabId

\* C12 Absent targets: update and delete of an id the store does not hold,
\* and deleteTab of an absent group or of a tab the group does not hold, with
\* no other writer, never write, leave the store as it was, and end rejected
\* with the not-found error of the group, or of the tab when the group exists.
C12_AbsentTargets ==
  \A t \in tasks :
    LET r == task[t] IN
      (r.pc # "idle" /\ r.clean /\ AbsentTarget(r.req, r.pre))
      => /\ store = r.pre
         /\ r.writes = 0 /\ r.pc # "set"
         /\ Done(t) => /\ Rejects(t)
                       /\ r.outcome.err =
                            IF r.req.id \notin DOMAIN r.pre
                            THEN GroupNotFound(r.req.id)
                            ELSE TabNotFound(r.req.tabId, r.req.id)

\* an id that was stored and deleted is deleted a second time
C12_Witness ==
  \E t \in tasks :
    LET r == task[t] IN
      /\ Rejects(t) /\ r.clean /\ r.req.op = "delete"
      /\ r.req.id \in known /\ r.req.id \notin DOMAIN r.pre
      /\ r.outcome.err = GroupNotFound(r.req.id)
      /\ store = r.pre

\* C13 Id immutability: every stored record carries the id it is stored
\* under, and an update, whatever its partial carries, with no other writer,
\* leaves the set of stored ids as it was.
C13_IdImmutable ==
  /\ \A k \in DOMAIN store : store[k].id = k
  /\ \A t \in tasks :
       (task[t].pc # "idle" /\ task[t].clean /\ task[t].req.op = "update")
       => DOMAIN store = DOMAIN task[t].pre

\* an update whose partial carries another id has resolved
C13_Witness ==
  \E t \in tasks :
    LET r == task[t] IN
      /\ Resolves(t) /\ r.clean /\ r.req.op = "update"
      /\ r.req.updates = [id |-> "g2"] /\ r.req.id = "g1"
      /\ DOMAIN store = {"g1"} /\ store["g1"].id = "g1"

\* C14 createdAt is immutable: while and after an operation of the dashboard
\* store, with no other writer, every group stored both before and now has
\* the createdAt it had.
C14_CreatedAtImmutable ==
  LET r == task[Dashboard] IN
    (r.pc # "idle" /\ r.clean /\ r.orch.kind \in StoreMutations)
    => \A k \in DOMAIN r.pre \cap DOMAIN store :
         store[k].createdAt = r.pre[k].createdAt

\* C15 No return to History: while and after an operation of the dashboard
\* store, with no other writer, a group that was stored with isHistory false
\* and is still stored has isHistory false.
C15_NoReturnToHistory ==
  LET r == task[Dashboard] IN
    (r.pc # "idle" /\ r.clean /\ r.orch.kind \in StoreMutations)
    => \A k \in DOMAIN r.pre \cap DOMAIN store :
         ~r.pre[k].isHistory => ~store[k].isHistory

\* C16 Deleted is terminal: once deleteGroup(id) has resolved, the store holds
\* no record under id, as long as no task is saving a group under that id.
C16_DeletedIsTerminal ==
  LET r == task[Dashboard] IN
    (/\ Resolves(Dashboard) /\ r.orch.kind = "deleteGroup"
     /\ \A t \in tasks : task[t].req.op = "save" => task[t].req.id # r.orch.id)
    => r.orch.id \notin DOMAIN store

\* C17 EmptyCapture: a saveGroup either goes to the repository with at least
\* one captured tab, or is rejected with the empty-capture error without any
\* read or write; the step that rejects it leaves the store and the snapshot
\* as they were.
C17_EmptyCapture ==
  /\ [](LET r == task[Dashboard] IN
          (r.pc # "idle" /\ r.orch.kind = "saveGroup")
          => \/ r.req.op = "save" /\ Len(r.req.group.tabs) > 0
             \/ /\ r.req = NoCall /\ r.call = NoCall
                /\ Rejects(Dashboard)
                /\ r.outcome.err = EmptyCaptureError
                /\ r.reads = 0 /\ r.writes = 0
                /\ r.clean => store = r.pre)
  /\ [][(/\ opsLeft' # opsLeft
         /\ task'[Dashboard].orch.kind = "saveGroup"
         /\ task'[Dashboard].req.op # "save")
        => /\ store' = store
           /\ tabGroups' = tabGroups
           /\ selectedGroupId' = selectedGroupId]_vars

\* an empty capture was rejected while groups are stored and shown
C17_Witness ==
  LET r == task[Dashboard] IN
    /\ Rejects(Dashboard) /\ r.orch.kind = "saveGroup"
    /\ r.outcome.err = EmptyCaptureError /\ r.writes = 0
    /\ DOMAIN store # {} /\ tabGroups = Deserialized(store)

\* C18 A saveGroup that has resolved, with no other writer, has added one
\* record under an id the store did not hold, with the given name and
\* isHistory, the captured tabs and the creation time, and every record
\* stored before is unchanged.
C18_SaveAddsOneGroup ==
  LET r == task[Dashboard]
      g == r.req.group
  IN (Resolves(Dashboard) /\ r.clean /\ r.orch.kind = "saveGroup")
     => /\ g.id \notin DOMAIN r.pre
        /\ DOMAIN store = DOMAIN r.pre \cup {g.id}
        /\ Cardinality(DOMAIN store) = Cardinality(DOMAIN r.pre) + 1
        /\ store[g.id].id = g.id /\ store[g.id].name = g.name
        /\ store[g.id].isHistory = g.isHistory /\ store[g.id].tabs = g.tabs
        /\ Len(store[g.id].tabs) > 0
        /\ ParseDate(store[g.id].createdAt) = g.createdAt
        /\ \A k \in DOMAIN r.pre : store[k] = r.pre[k]

\* a second group was saved next to a stored one with the same content
C18_Witness ==
  LET r == task[Dashboard] IN
    /\ Resolves(Dashboard) /\ r.clean /\ r.orch.kind = "saveGroup"
    /\ Cardinality(DOMAIN store) = 2 /\ Cardinality(tabGroups) = 2
    /\ \E k \in DOMAIN r.pre :
         /\ store[k].name = r.req.group.name
         /\ store[k].createdAt = store[r.req.id].createdAt

\* C19 Selection side effect: the step on which deleteGroup(id) resolves sets
\* selectedGroupId to null when it is id and leaves it alone otherwise; every
\* other step of an operation of the store or the repository leaves
\* selectedGroupId alone; after deleteGroup(id) has resolved, a selection that
\* was id when it was called is not id.
C19_SelectionSideEffect ==
  /\ [](LET r == task[Dashboard] IN
          (Resolves(Dashboard) /\ r.orch.kind = "deleteGroup" /\ r.orch.sel = r.orch.id)
          => selectedGroupId # r.orch.id)
  /\ [][LET r == task[Dashboard]
            q == task'[Dashboard]
            resolvesDelete ==
              /\ r.pc # "done" /\ q.pc = "done"
              /\ q.outcome.status = "resolved" /\ q.orch.kind = "deleteGroup"
        IN /\ resolvesDelete =>
                selectedGroupId' = IF selectedGroupId = q.orch.id
                                   THEN NoSelection ELSE selectedGroupId
           /\ (task' # task /\ ~resolvesDelete) => selectedGroupId' = selectedGroupId]_vars

\* the group that was selected when deleteGroup was called is gone and the
\* selection is cleared
C19_Witness ==
  LET r == task[Dashboard] IN
    /\ Resolves(Dashboard) /\ r.orch.kind = "deleteGroup"
    /\ r.orch.sel = r.orch.id /\ r.orch.id \in DOMAIN r.pre
    /\ r.orch.id \notin DOMAIN store
    /\ selectedGroupId = NoSelection

\* C20 Visible state follows durable state: whenever the dashboard store has
\* no operation in progress (none started yet, or its last one resolved), its
\* snapshot is the deserialization of the store.
C20_VisibleFollowsDurable ==
  LET r == task[Dashboard] IN
    (\/ r.pc = "idle"
     \/ Resolves(Dashboard) /\ r.orch.kind \in StoreMutations \cup {"loadGroups"})
    => tabGroups = Deserialized(store)

\* a repository write of a store action is in flight for task t
InFlightWrite(t) ==
  /\ task[t].pc \in {"get", "set", "sleep"}
  /\ task[t].orch.kind \in StoreMutations
  /\ task[t].orch.stage = "write"

\* C21 Single writer per id: no two invocations of the dashboard store have a
\* repository write for the same group id in flight at the same time.
C21_SingleWriterPerId ==
  \A a, b \in tasks \cap {Dashboard, TitleEdit} :
    (a # b /\ InFlightWrite(a) /\ InFlightWrite(b))
    => task[a].req.id # task[b].req.id

\* the repository mutation called by task t has rejected
MutationRejected(t) ==
  /\ Rejects(t) /\ task[t].req.op \in Mutations
  /\ task[t].orch.kind = "none" \/ task[t].orch.stage = "write"

\* C22 Failed storage operations do not corrupt data: when a repository
\* mutation has rejected, after its retries or on a quota error, with no other
\* writer, the store holds the keys and the records it held when the mutation
\* was called.
C22_FailedMutationKeepsStore ==
  \A t \in tasks :
    (MutationRejected(t) /\ task[t].clean) => store = task[t].pre

\* a deleteTab whose setValue was rejected on a store that holds the group
C22_Witness ==
  \E t \in tasks :
    /\ MutationRejected(t) /\ task[t].clean /\ task[t].req.op = "deleteTab"
    /\ task[t].writes >= 1 /\ task[t].outcome.err.kind \in {"Network", "Timeout", "QUOTA_BYTES"}
    /\ task[t].req.id \in DOMAIN store
    /\ Len(store[task[t].req.id].tabs) = 2

Captured ==
  /\ task[Background].orch.kind = "CAPTURE_TABS"
  /\ task[Background].pc \in {"get", "set", "sleep", "settings"}

\* a restricted scheme of the URL validation
IsRestricted(url) ==
  Protocol(url) \in {"chrome:", "chrome-extension:", "about:", "data:", "javascript:"}

\* the host tabs that have a well-formed URL with a non-restricted scheme
Capturable(tabs) ==
  SelectSeq(tabs, LAMBDA h : h.url # NoUrl /\ Protocol(h.url) # "malformed"
                              /\ ~IsRestricted(h.url))

\* C24 Capture completeness: the captured items are, in host order, one item
\* for each host tab that has a URL with a non-restricted scheme and none for
\* any other tab, with the url and favicon of the tab, its title or
\* 'Untitled', and pairwise distinct ids.
C24_CaptureCompleteness ==
  LET got == task[Background].req.group.tabs
      want == Capturable(window)
  IN Captured =>
       /\ Len(got) = Len(want)
       /\ \A i \in 1..Len(got) :
            /\ got[i].url = want[i].url
            /\ got[i].faviconUrl = want[i].favIconUrl
            /\ got[i].title = IF want[i].title = NoTitle THEN "Untitled" ELSE want[i].title
       /\ \A i, j \in 1..Len(got) : i # j => got[i].id # got[j].id

\* C25 Capture filters every restricted scheme: no captured item has a
\* malformed URL or a URL with a restricted scheme, data: and javascript:
\* included, so every captured item passes validateUrl.
C25_CaptureFiltersRestricted ==
  LET got == task[Background].req.group.tabs
  IN Captured =>
       \A i \in 1..Len(got) :
         /\ ~IsRestricted(got[i].url)
         /\ validateUrl(got[i].url)

\* the items of the last openTabs whose URL is well-formed and not restricted
Restorable(items) ==
  SelectSeq(items, LAMBDA x : Protocol(x.url) # "malformed" /\ ~IsRestricted(x.url))

Denied(i) ==
  /\ Protocol(tabOp.items[i].url) = "https:"
  /\ tabOp.outcomes[i] = "permission"

\* the positions of the items of the last openTabs that have a valid URL and
\* no refused creation before them
Attempted ==
  SelectSeq([i \in 1..Len(tabOp.items) |-> i],
            LAMBDA i : /\ Protocol(tabOp.items[i].url) = "https:"
                       /\ \A j \in 1..(i - 1) : ~Denied(j))

C28_StrictSingleTab ==
  LET url == tabOp.items[1].url IN
    tabOp.op = "openSingleTab" =>
      IF Protocol(url) = "malformed" \/ IsRestricted(url)
      THEN /\ tabOp.status = "rejected"
           /\ tabOp.err = InvalidUrlError(url)
           /\ tabOp.calls = <<>>
           /\ Len(window) = 1
      ELSE /\ tabOp.host = "ok" =>
                /\ tabOp.calls =
                     <<GetCurrentCall,
                       [api |-> "tabs.create", windowId |-> CurrentWindowId,
                        url |-> url, active |-> TRUE]>>
                /\ tabOp.outcomes = <<"ok">> => tabOp.status = "resolved" /\ Len(window) = 2
           /\ tabOp.host # "ok" => tabOp.calls = <<GetCurrentCall>> /\ tabOp.status = "rejected"
           /\ tabOp.err.cls # "InvalidUrlError"

\* a script URL was refused before any host call
C28_Witness ==
  /\ tabOp.op = "openSingleTab" /\ tabOp.status = "rejected"
  /\ tabOp.items[1].url = "javascript:void(0)"
  /\ tabOp.err = InvalidUrlError("javascript:void(0)")
  /\ tabOp.calls = <<>>

\* C29 Derived views: historyGroups are the snapshot groups with isHistory
\* true and namedGroups those with isHistory false, disjoint and together the
\* whole snapshot; no two snapshot groups share an id, and selectedGroup is the
\* snapshot group whose id is selectedGroupId, or null when there is none.
C29_DerivedViews ==
  /\ \A g \in tabGroups :
       /\ g \in historyGroups <=> g.isHistory = TRUE
       /\ g \in namedGroups <=> g.isHistory = FALSE
  /\ historyGroups \cap namedGroups = {}
  /\ historyGroups \cup namedGroups = tabGroups
  /\ \A g, h \in tabGroups : g.id = h.id => g = h
  /\ \A g \in tabGroups : g.id = selectedGroupId => selectedGroup = g
  /\ (\A g \in tabGroups : g.id # selectedGroupId) => selectedGroup = NoSelectedGroup

\* a named group is selected next to a history group
C29_Witness ==
  /\ selectedGroupId # NoSelection
  /\ selectedGroup # NoSelectedGroup /\ selectedGroup \in namedGroups
  /\ historyGroups # {}
  /\ Cardinality(tabGroups) = 2

\* C30 Close after successful save: in the CAPTURE_TABS handler the tabs are
\* closed, and closeCurrentTabs is called, only once saveTabGroup has resolved
\* with the group stored and only when autoCloseAfterSave is set; when the
\* capture or the save fails no tab is closed.
C30_CloseAfterSave ==
  /\ [](LET r == task[Background] IN
          /\ (r.orch.kind = "CAPTURE_TABS" /\ tabOp.op = "closeCurrentTabs")
             => /\ autoCloseAfterSave
                /\ r.pc = "done" /\ r.orch.stage = "close"
                /\ r.req.id \in DOMAIN store
          /\ (r.orch.kind = "CAPTURE_TABS" /\ Rejects(Background)
              /\ r.orch.stage \in {"capture", "write"})
             => tabOp = NoTabOp /\ r.req.id \notin DOMAIN store)
  /\ [][(task[Background].orch.kind = "CAPTURE_TABS" /\ (window' # window \/ tabOp' # tabOp))
        => /\ task[Background].pc = "settings"
           /\ autoCloseAfterSave
           /\ task[Background].req.id \in DOMAIN store]_vars

\* the captured tabs were saved and then closed
C30_Witness ==
  LET r == task[Background] IN
    /\ Resolves(Background) /\ r.orch.kind = "CAPTURE_TABS"
    /\ tabOp.op = "closeCurrentTabs" /\ tabOp.status = "resolved"
    /\ window = <<>>
    /\ r.req.id \in DOMAIN store /\ Len(store[r.req.id].tabs) = 2

\* C31 Backoff schedule: the delays waited by a call are 100, 200 and 400 ms
\* in this order, at most three, never decreasing and never above 2000; one
\* delay follows each failed attempt but the last, so none is waited after
\* the final failed attempt, and none after a quota error.
C31_BackoffSchedule ==
  \A t \in tasks :
    LET r == task[t] IN
      /\ Len(r.delays) <= 3
      /\ \A k \in 1..Len(r.delays) :
           /\ r.delays[k] = (CASE k = 1 -> 100 [] k = 2 -> 200 [] OTHER -> 400)
           /\ r.delays[k] <= 2000
           /\ k > 1 => r.delays[k] >= r.delays[k - 1]
      /\ Len(r.delays) = IF r.pc = "sleep" THEN r.attempt + 1 ELSE r.attempt
      /\ r.pc = "sleep" => r.attempt < 3 /\ r.thrown.kind # "QUOTA_BYTES"
      /\ (Rejects(t) /\ r.reads >= 1) => Len(r.delays) = r.reads - 1

\* a call rejected after four failed attempts waited 100, 200 and 400 ms
C31_Witness ==
  \E t \in tasks :
    /\ Rejects(t) /\ task[t].reads = 4
    /\ task[t].delays = <<100, 200, 400>>
    /\ task[t].outcome.err.kind \in {"Network", "Timeout"}

\* C32 No lost update across groups: a group whose save has resolved on a
\* store that did not hold its id is in the store with the fields it was
\* saved with, as long as the other surface has only run a save, update or
\* deleteTab on another group id, however the reads and writes interleaved.
C32_NoLostUpdateAcrossGroups ==
  \A t \in tasks :
    LET r == task[t] IN
      (/\ Resolves(t) /\ r.req.op = "save" /\ r.req.id \notin DOMAIN r.pre
       /\ \A u \in tasks \ {t} :
            /\ task[u].req.op \in {"none", "save", "update", "deleteTab"}
            /\ task[u].req.id # r.req.id)
      => /\ r.req.id \in DOMAIN store
         /\ store[r.req.id] = serializeTabGroup(r.req.group)

\* C33 A rejection never hides a committed write: when saveGroup,
\* updateGroup, deleteGroup, deleteTab or convertToNamed has rejected, with no
\* other writer, the store is the one the action was called on, a failure of
\* the reload after a successful write included.
C33_RejectionMeansNoWrite ==
  \A t \in tasks :
    (Rejects(t) /\ task[t].orch.kind \in StoreMutations /\ task[t].clean)
    => store = task[t].pre

\* C34 Error reporting is exactly-once: an action of the store that rejects
\* has invoked the store error handler once, whichever stage failed, and one
\* that resolves has not invoked it.
C34_ErrorReportedOnce ==
  \A t \in tasks :
    task[t].orch.kind \in StoreMutations \cup {"loadGroups"}
    => /\ Rejects(t) => task[t].handled = 1
       /\ Resolves(t) => task[t].handled = 0

\* C35 Auto-close loses no tab: every tab that the auto-close step of the
\* CAPTURE_TABS handler closes has its URL in the group that was saved.
C35_AutoCloseLosesNoTab ==
  [][(/\ task[Background].orch.kind = "CAPTURE_TABS"
      /\ task[Background].pc = "settings"
      /\ task'[Background].pc = "done")
     => \A i \in 1..(Len(window) - Len(window')) :
          \E j \in 1..Len(task[Background].req.group.tabs) :
            task[Background].req.group.tabs[j].url = window[i].url]_vars

\* C36 Groups are never empty: every record in the store has at least one tab.
C36_GroupsNeverEmpty ==
  \A id \in DOMAIN store : Len(store[id].tabs) >= 1

\* C37 A failure response means nothing was persisted: when the CAPTURE_TABS
\* handler has answered with success false, the store holds no group of that
\* request and is the one the request found.
C37_FailureMeansNotPersisted ==
  (Rejects(Background) /\ task[Background].orch.kind = "CAPTURE_TABS")
  => /\ task[Background].req.id \notin DOMAIN store
     /\ store = task[Background].pre

\* the record stored under id has a createdAt that cannot be parsed
Unparsable(m, id) == id \in DOMAIN m /\ ParseDate(m[id].createdAt) = InvalidDate

\* C38 A record with an unparsable createdAt stays manageable: loadGroups
\* resolves and shows every stored record; an update or convertToNamed of such
\* a record resolves with the updated fields stored; a save targeting its id
\* resolves and replaces it.
C38_CorruptRecordManageable ==
  \A t \in tasks :
    LET r == task[t] IN
      (Done(t) /\ r.clean) =>
        /\ r.orch.kind = "loadGroups"
           => Resolves(t) /\ {g.id : g \in tabGroups} = DOMAIN store
        /\ (r.req.op = "update" /\ Unparsable(r.pre, r.req.id))
           => /\ Resolves(t)
              /\ \A f \in DOMAIN r.req.updates \ {"id", "createdAt"} :
                   store[r.req.id][f] = r.req.updates[f]
        /\ (r.req.op = "save" /\ Unparsable(r.pre, r.req.id))
           => /\ Resolves(t)
              /\ store[r.req.id] = serializeTabGroup(r.req.group)

\* C39 Error classification is independent of ids: an update, delete or
\* deleteTab whose target is absent rejects with the not-found error of the
\* group or of the tab, and never with StorageQuotaExceededError, whatever
\* the text of the id.
C39_ClassificationIgnoresIds ==
  \A t \in tasks :
    LET r == task[t] IN
      (Rejects(t) /\ r.clean /\ AbsentTarget(r.req, r.pre))
      => /\ r.outcome.err.cls # "StorageQuotaExceededError"
         /\ r.outcome.err.kind \in {"GroupNotFound", "TabNotFound"}
         /\ r.outcome.err.cls = "Error"

====
